---- MODULE Spec2Model ----
(***************************************************************************)
(* Model of the transit gateway waiters of terraform-provider-aws: the      *)
(* refresh functions and wait functions of transit gateways, route tables, *)
(* route table associations, peering and VPC attachments and multicast     *)
(* domains, the multi-subnet association aggregator                        *)
(* (ec2TransitGatewayMulticastDomainAssociationRefreshFunc), the group     *)
(* register / deregister visibility waits, the route table association and *)
(* propagation updates and the workspaces directory refresh function.  The *)
(* polling loop (resource.StateChangeConf.WaitForState) and the retry      *)
(* helper (resource.Retry) are modelled from the specification, sections   *)
(* 4.2 and 4.4.                                                            *)
(***************************************************************************)
EXTENDS Integers, Sequences, FiniteSets, TLC

\* ---------------------------------------------------------------- bounds
NumSubnets == 2      \* subnet ids known to the multicast domain
NumNetIfs == 2       \* network interface ids a group may hold
TimeoutTicks == 3    \* number of poll intervals that fit into the timeout

\* Durations are counted in units of which TimeoutTicks make a minute, so that
\* TimeoutTicks poll intervals make ten minutes.
Minute == TimeoutTicks
PollInterval == 10

MaxPages == 2        \* pages a paginated call may be answered with
MaxPageLen == 1      \* entries on one page
MaxDirs == 2         \* directories on one page of the sweeper's listing

Subnets == 1..NumSubnets
NetIfs == 1..NumNetIfs

\* ------------------------------------------------------------ EC2 labels
Associating == "associating"
Associated == "associated"
AssociationFailed == "associationFailed"
Disassociating == "disassociating"
Disassociated == "disassociated"
Unrecognized == "unrecognized"   \* any label outside the five enum values

RecognizedLabels ==
  {Associating, Associated, AssociationFailed, Disassociating, Disassociated}
Labels == RecognizedLabels \cup {Unrecognized}
InProgressLabels == {Associating, Disassociating}
Absent == "absent"               \* the subnet has no entry in the list

\* ------------------------------------------------- single resource labels
Deleted == "deleted"
TransitGatewayStates ==
  {"pending", "available", "modifying", "deleting", Deleted}
RouteTableStates == {"pending", "available", "deleting", Deleted}
RouteTableAssociationStates ==
  {Associating, Associated, Disassociating, Disassociated}
AttachmentStates ==
  {"initiatingRequest", "pendingAcceptance", "pending", "available",
   "modifying", "deleting", Deleted, "failed", "rejected", "failing"}
MulticastDomainStates == {"pending", "available", "deleting", Deleted}
WorkspaceDirectoryStates ==
  {"REGISTERING", "REGISTERED", "DEREGISTERING", "DEREGISTERED", "ERROR"}

\* error codes a describe call may fail with
NotFoundCodes ==
  {"InvalidTransitGatewayID.NotFound", "InvalidRouteTableID.NotFound",
   "InvalidTransitGatewayAttachmentID.NotFound",
   "InvalidTransitGatewayMulticastDomainId.NotFound"}
ErrorCodes == NotFoundCodes \cup {"InternalError"}

\* What one describe call yields: an error with a code, no matching entry,
\* or the resource with its state (status: a peering attachment's Status).
NotDescribed == [api |-> "none", code |-> "", state |-> "", status |-> FALSE]
DescribeOutcomes(states) ==
  {[api |-> "error", code |-> c, state |-> "", status |-> FALSE] :
     c \in ErrorCodes}
  \cup {[api |-> "empty", code |-> "", state |-> "", status |-> FALSE]}
  \cup {[api |-> "found", code |-> "", state |-> st, status |-> FALSE] :
          st \in states}
PeeringDescribeOutcomes ==
  DescribeOutcomes(AttachmentStates)
  \cup {[api |-> "found", code |-> "", state |-> st, status |-> TRUE] :
          st \in AttachmentStates}

VARIABLES
  waitFn,        \* the wait function that was called
  subnetIDs,     \* the tracked subnet ids (argument subnetIDs)
  remote,        \* subnet -> label or Absent, the domain's associations
  netIDs,        \* groupData["network_interface_ids"]
  groups,        \* network interface ids of the groups the search returns
  pc,            \* "Polling", "Succeeded", "Failed" or "TimedOut"
  ticks,         \* polls / predicate evaluations performed so far
  subnetStates,  \* the map built by the latest association refresh
  result,        \* the latest (payload, state, err) of the refresh function
  history,       \* per poll: the visibility (group waits) or the label seen
  ret,           \* what the wait function returned to its caller
  described,     \* what the latest describe call of a refresh function gave
  update,        \* the update function that was called, and its argument
  trace,         \* the calls an update function has made, in order
  lookup,        \* a paginated lookup: the function, the pages, its result
  sweep          \* a run of the workspaces directory sweeper

vars == <<waitFn, subnetIDs, remote, netIDs, groups, pc, ticks,
          subnetStates, result, history, ret, described, update, trace,
          lookup, sweep>>

AssociationWaits == {"Association", "Disassociation"}
GroupWaits == {"GroupRegister", "GroupDeregister"}
TransitGatewayWaits == {"TransitGatewayCreation", "TransitGatewayDeletion"}
RouteTableWaits == {"RouteTableCreation", "RouteTableDeletion"}
RouteTableAssociationWaits ==
  {"RouteTableAssociationCreation", "RouteTableAssociationDeletion"}
PeeringAttachmentWaits ==
  {"PeeringAttachmentAcceptance", "PeeringAttachmentCreation",
   "PeeringAttachmentDeletion"}
VpcAttachmentWaits ==
  {"VpcAttachmentAcceptance", "VpcAttachmentCreation",
   "VpcAttachmentDeletion", "VpcAttachmentUpdate"}
MulticastDomainWaits == {"MulticastDomainCreation", "MulticastDomainDeletion"}
WorkspacesWaits == {"WorkspacesDirectoryDeregistered"}
ResourceWaits ==
  TransitGatewayWaits \cup RouteTableWaits \cup RouteTableAssociationWaits
  \cup PeeringAttachmentWaits \cup VpcAttachmentWaits
  \cup MulticastDomainWaits \cup WorkspacesWaits

\* ------------------------------------------------------------ observations
NoResult == [payload |-> "none", state |-> "", err |-> "none"]
Running == [class |-> "Running", names |-> {}]
Success == [class |-> "Success", names |-> {}]
Failure(class, names) == [class |-> class, names |-> names]

\* An update function in progress: fn is the function, flag its argument
\* (associate / enablePropagation), at its position, found what its describe
\* call gave, state the State of the association it gave, err what it
\* returned.
NoUpdate ==
  [fn |-> "none", flag |-> FALSE, at |-> "None", found |-> "unknown",
   state |-> "", err |-> Running]
UpdateFns == {"AssociationUpdate", "PropagationUpdate"}
Updates ==
  {[fn |-> f, flag |-> b, at |-> "Describe", found |-> "unknown",
    state |-> "", err |-> Running] : f \in UpdateFns, b \in BOOLEAN}

\* ------------------------------------------------------------ list fetch
\* The association list of the domain: one entry per subnet that has one.
RECURSIVE ListFrom(_, _)
ListFrom(rem, s) ==
  IF s > NumSubnets THEN <<>>
  ELSE IF rem[s] = Absent THEN ListFrom(rem, s + 1)
  ELSE <<[SubnetId |-> s, State |-> rem[s]]>> \o ListFrom(rem, s + 1)

ec2GetTransitGatewayMulticastDomainAssociations(rem, reqErr) ==
  IF reqErr THEN [associations |-> <<>>, err |-> "RequestError"]
  ELSE [associations |-> ListFrom(rem, 1), err |-> "nil"]

\* ------------------------------------------------------------ aggregator
\* second loop of the refresh function: copy the state of tracked subnets
RECURSIVE FillStates(_, _, _)
FillStates(states, associations, i) ==
  IF i > Len(associations) THEN states
  ELSE LET subnetID == associations[i].SubnetId
       IN IF subnetID \in DOMAIN states
          THEN FillStates([states EXCEPT ![subnetID] = associations[i].State],
                          associations, i + 1)
          ELSE FillStates(states, associations, i + 1)

\* the third loop left out: a tracked subnet without state keeps ""
MarkNotFoundSkipped(states) == states

\* third loop: a tracked subnet without state is functionally disassociated
MarkNotFound(states) ==
  [id \in DOMAIN states |->
     IF states[id] = "" THEN Disassociated ELSE states[id]]

BuildSubnetStates(ids, associations) ==
  MarkNotFound(FillStates([id \in ids |-> ""], associations, 1))

\* the reduction loop with the comparison of the "associated" case inverted
RECURSIVE CompoundLoopInverted(_, _, _, _)
CompoundLoopInverted(states, order, i, compoundState) ==
  IF i > Len(order)
  THEN [payload |-> "associations", state |-> compoundState, err |-> "nil"]
  ELSE LET state == states[order[i]]
       IN IF compoundState = ""
          THEN CompoundLoopInverted(states, order, i + 1, state)
          ELSE CASE state \in {AssociationFailed, Disassociating, Disassociated} ->
                      CompoundLoopInverted(states, order, i + 1, compoundState)
                 [] state = Associating ->
                      [payload |-> "associations", state |-> state,
                       err |-> "nil"]
                 [] state = Associated ->
                      IF compoundState = state
                      THEN [payload |-> "nil", state |-> "",
                            err |-> "ConflictingStates"]
                      ELSE CompoundLoopInverted(states, order, i + 1,
                                                compoundState)
                 [] OTHER ->
                      [payload |-> "nil", state |-> "", err |-> "Unhandled"]

\* the reduction loop, over the iteration order the map range produced
RECURSIVE CompoundLoop(_, _, _, _)
CompoundLoop(states, order, i, compoundState) ==
  IF i > Len(order)
  THEN [payload |-> "associations", state |-> compoundState, err |-> "nil"]
  ELSE LET state == states[order[i]]
       IN IF compoundState = ""
          THEN CompoundLoop(states, order, i + 1, state)
          ELSE CASE state = AssociationFailed ->
                      CompoundLoop(states, order, i + 1, compoundState)
                 [] state = Disassociating ->
                      CompoundLoop(states, order, i + 1, compoundState)
                 [] state = Associating ->
                      [payload |-> "associations", state |-> state,
                       err |-> "nil"]
                 [] state = Disassociated ->
                      CompoundLoop(states, order, i + 1, compoundState)
                 [] state = Associated ->
                      IF compoundState # state
                      THEN [payload |-> "nil", state |-> "",
                            err |-> "ConflictingStates"]
                      ELSE CompoundLoop(states, order, i + 1, compoundState)
                 [] OTHER ->
                      [payload |-> "nil", state |-> "", err |-> "Unhandled"]

ec2TransitGatewayMulticastDomainAssociationRefreshFunc(rem, reqErr, ids, order) ==
  LET fetched == ec2GetTransitGatewayMulticastDomainAssociations(rem, reqErr)
  IN IF fetched.err # "nil"
     THEN [payload |-> "nil", state |-> "", err |-> "RequestError"]
     ELSE CompoundLoop(BuildSubnetStates(ids, fetched.associations),
                       order, 1, "")

\* every order in which a Go map range may visit the keys
IterationOrders(ids) ==
  {o \in [1..Cardinality(ids) -> ids] :
     \A i, j \in 1..Cardinality(ids) : i # j => o[i] # o[j]}

\* ------------------------------------------------------- refresh functions
Observation(payload, state, err) ==
  [payload |-> payload, state |-> state, err |-> err]
isAWSErr(d, code) == d.api = "error" /\ d.code = code

ec2TransitGatewayRefreshFunc(d) ==
  IF isAWSErr(d, "InvalidTransitGatewayID.NotFound")
  THEN Observation("nil", Deleted, "nil")
  ELSE IF d.api = "error" THEN Observation("nil", "", "RequestError")
  ELSE IF d.api = "empty" THEN Observation("nil", Deleted, "nil")
  ELSE Observation("transitGateway", d.state, "nil")

ec2TransitGatewayRouteTableRefreshFunc(d) ==
  IF isAWSErr(d, "InvalidRouteTableID.NotFound")
  THEN Observation("nil", Deleted, "nil")
  ELSE IF d.api = "error" THEN Observation("nil", "", "RequestError")
  ELSE IF d.api = "empty" THEN Observation("nil", Deleted, "nil")
  ELSE Observation("transitGatewayRouteTable", d.state, "nil")

\* the association refresh function without its not-found test
ec2TransitGatewayRouteTableAssociationRefreshFuncNoNotFound(d) ==
  IF d.api = "error" THEN Observation("nil", "", "RequestError")
  ELSE IF d.api = "empty" THEN Observation("nil", Deleted, "nil")
  ELSE Observation("transitGatewayAssociation", d.state, "nil")

ec2TransitGatewayRouteTableAssociationRefreshFunc(d) ==
  IF isAWSErr(d, "InvalidRouteTableID.NotFound")
  THEN Observation("nil", Deleted, "nil")
  ELSE IF d.api = "error" THEN Observation("nil", "", "RequestError")
  ELSE IF d.api = "empty" THEN Observation("nil", Deleted, "nil")
  ELSE Observation("transitGatewayAssociation", d.state, "nil")

\* the peering refresh function without its branch for a failed attachment
ec2TransitGatewayPeeringAttachmentRefreshFuncNoStatus(d) ==
  IF isAWSErr(d, "InvalidTransitGatewayAttachmentID.NotFound")
  THEN Observation("nil", Deleted, "nil")
  ELSE IF d.api = "error" THEN Observation("nil", "", "RequestError")
  ELSE IF d.api = "empty" THEN Observation("nil", Deleted, "nil")
  ELSE Observation("transitGatewayPeeringAttachment", d.state, "nil")

ec2TransitGatewayPeeringAttachmentRefreshFunc(d) ==
  IF isAWSErr(d, "InvalidTransitGatewayAttachmentID.NotFound")
  THEN Observation("nil", Deleted, "nil")
  ELSE IF d.api = "error" THEN Observation("nil", "", "RequestError")
  ELSE IF d.api = "empty" THEN Observation("nil", Deleted, "nil")
  ELSE IF d.state = "failed" /\ d.status
       THEN Observation("transitGatewayPeeringAttachment", d.state,
                        "StatusCodeMessage")
  ELSE Observation("transitGatewayPeeringAttachment", d.state, "nil")

ec2TransitGatewayVpcAttachmentRefreshFunc(d) ==
  IF isAWSErr(d, "InvalidTransitGatewayAttachmentID.NotFound")
  THEN Observation("nil", Deleted, "nil")
  ELSE IF d.api = "error" THEN Observation("nil", "", "RequestError")
  ELSE IF d.api = "empty" THEN Observation("nil", Deleted, "nil")
  ELSE Observation("transitGatewayVpcAttachment", d.state, "nil")

ec2TransitGatewayMulticastDomainRefreshFunc(d) ==
  IF isAWSErr(d, "InvalidTransitGatewayMulticastDomainId.NotFound")
  THEN Observation("nil", Deleted, "nil")
  ELSE IF d.api = "error" THEN Observation("nil", "", "RequestError")
  ELSE IF d.api = "empty" THEN Observation("nil", Deleted, "nil")
  ELSE Observation("multicastDomain", d.state, "nil")

\* the directory refresh function reporting "ERROR" without the error
workspacesDirectoryRefreshStateFuncErrorDropped(d) ==
  IF d.api = "error" THEN Observation("nil", "ERROR", "nil")
  ELSE IF d.api = "empty" THEN Observation("resp", "DEREGISTERED", "nil")
  ELSE Observation("resp", d.state, "nil")

workspacesDirectoryRefreshStateFunc(d) ==
  IF d.api = "error" THEN Observation("nil", "ERROR", "RequestError")
  ELSE IF d.api = "empty" THEN Observation("resp", "DEREGISTERED", "nil")
  ELSE Observation("resp", d.state, "nil")

\* ------------------------------------------------------------ engine
\* One tick of the convergence engine on a fresh observation; elapsed is the
\* number of poll intervals that have passed once this tick has slept.
\* A wait that declares not-found checks takes an observation without
\* payload (the resource is absent) as success.
WaitForState(conf, obs, elapsed) ==
  IF obs.err # "nil" THEN Failure(obs.err, {})
  ELSE IF obs.state \in conf.Target THEN Success
  ELSE IF conf.NotFoundChecks >= 1 /\ obs.payload = "nil" THEN Success
  ELSE IF obs.state \in conf.Pending
       THEN IF elapsed * PollInterval >= conf.Timeout
            THEN Failure("Timeout", {}) ELSE Running
  ELSE Failure("UnexpectedState", {})

\* Retry-until-visible: rerr is what one evaluation of the predicate returned.
Retry(rerr, elapsed) ==
  CASE rerr = "nil" -> Success
    [] rerr = "NonRetryable" -> Failure("RequestError", {})
    [] OTHER -> IF elapsed >= TimeoutTicks
                THEN Failure("Timeout", {}) ELSE Running

isResourceNotFoundError(err) == err.class = "NotFound"
isResourceTimeoutError(err) == err.class = "Timeout"

PcOf(outcome) ==
  CASE outcome.class = "Running" -> "Polling"
    [] outcome.class = "Success" -> "Succeeded"
    [] outcome.class = "Timeout" -> "TimedOut"
    [] OTHER -> "Failed"

AssociationStateConf ==
  [Pending |-> {Associating}, Target |-> {Associated},
   Timeout |-> 10 * Minute, NotFoundChecks |-> 0]

DisassociationStateConf ==
  [Pending |-> {Associated, Disassociating}, Target |-> {Disassociated},
   Timeout |-> 10 * Minute, NotFoundChecks |-> 1]

\* ------------------------------------------------------------ wait functions
\* Each wait function yields the engine's outcome of this tick (engine) and
\* the error value it hands to its caller once the engine has stopped (ret).
waitForEc2TransitGatewayMulticastDomainAssociation(obs, elapsed) ==
  LET err == WaitForState(AssociationStateConf, obs, elapsed)
  IN [engine |-> err, ret |-> err]

waitForEc2TransitGatewayMulticastDomainDisassociation(obs, elapsed) ==
  LET err == WaitForState(DisassociationStateConf, obs, elapsed)
  IN [engine |-> err,
      ret |-> IF isResourceNotFoundError(err) THEN Success ELSE err]

\* how a wait function turns the error of WaitForState into its return
ReturnErr(err) == [engine |-> err, ret |-> err]
ReturnNilIfNotFound(err) ==
  [engine |-> err,
   ret |-> IF isResourceNotFoundError(err) THEN Success ELSE err]

\* the creation wait's configuration with the timeout of the association waits
TransitGatewayCreationConfFiveMinutes ==
  [Pending |-> {"pending"},
   Target |-> {"available"},
   Timeout |-> 5 * Minute, NotFoundChecks |-> 0]

TransitGatewayCreationConf ==
  [Pending |-> {"pending"},
   Target |-> {"available"},
   Timeout |-> 10 * Minute, NotFoundChecks |-> 0]

waitForEc2TransitGatewayCreation(obs, elapsed) ==
  ReturnErr(WaitForState(TransitGatewayCreationConf, obs, elapsed))

TransitGatewayDeletionConf ==
  [Pending |-> {"available", "deleting"},
   Target |-> {Deleted},
   Timeout |-> 10 * Minute, NotFoundChecks |-> 1]

\* the deletion wait run with the states of the creation wait
waitForEc2TransitGatewayDeletionAsCreation(obs, elapsed) ==
  ReturnErr(WaitForState(TransitGatewayCreationConf, obs, elapsed))

waitForEc2TransitGatewayDeletion(obs, elapsed) ==
  ReturnNilIfNotFound(WaitForState(TransitGatewayDeletionConf, obs, elapsed))

TransitGatewayRouteTableCreationConf ==
  [Pending |-> {"pending"},
   Target |-> {"available"},
   Timeout |-> 10 * Minute, NotFoundChecks |-> 0]

\* the route table creation wait run with the states of the deletion wait
waitForEc2TransitGatewayRouteTableCreationAsDeletion(obs, elapsed) ==
  ReturnErr(WaitForState([Pending |-> {"available", "deleting"},
                          Target |-> {Deleted},
                          Timeout |-> 10 * Minute, NotFoundChecks |-> 0],
                         obs, elapsed))

waitForEc2TransitGatewayRouteTableCreation(obs, elapsed) ==
  ReturnErr(WaitForState(TransitGatewayRouteTableCreationConf, obs, elapsed))

TransitGatewayRouteTableDeletionConf ==
  [Pending |-> {"available", "deleting"},
   Target |-> {Deleted},
   Timeout |-> 10 * Minute, NotFoundChecks |-> 1]

waitForEc2TransitGatewayRouteTableDeletion(obs, elapsed) ==
  ReturnNilIfNotFound(WaitForState(TransitGatewayRouteTableDeletionConf, obs, elapsed))

TransitGatewayRouteTableAssociationCreationConf ==
  [Pending |-> {Associating},
   Target |-> {Associated},
   Timeout |-> 5 * Minute, NotFoundChecks |-> 0]

\* the association wait run with the states of the disassociation wait
waitForEc2TransitGatewayRouteTableAssociationCreationAsDeletion(obs, elapsed) ==
  ReturnErr(WaitForState([Pending |-> {Associated, Disassociating},
                          Target |-> {""},
                          Timeout |-> 5 * Minute, NotFoundChecks |-> 0],
                         obs, elapsed))

waitForEc2TransitGatewayRouteTableAssociationCreation(obs, elapsed) ==
  ReturnErr(WaitForState(TransitGatewayRouteTableAssociationCreationConf, obs, elapsed))

\* the disassociation wait's configuration without its not-found checks
TransitGatewayRouteTableAssociationDeletionConfNoChecks ==
  [Pending |-> {Associated, Disassociating},
   Target |-> {""},
   Timeout |-> 5 * Minute, NotFoundChecks |-> 0]

TransitGatewayRouteTableAssociationDeletionConf ==
  [Pending |-> {Associated, Disassociating},
   Target |-> {""},
   Timeout |-> 5 * Minute, NotFoundChecks |-> 1]

waitForEc2TransitGatewayRouteTableAssociationDeletion(obs, elapsed) ==
  ReturnNilIfNotFound(WaitForState(TransitGatewayRouteTableAssociationDeletionConf, obs, elapsed))

TransitGatewayPeeringAttachmentAcceptanceConf ==
  [Pending |-> {"pending", "pendingAcceptance"},
   Target |-> {"available"},
   Timeout |-> 10 * Minute, NotFoundChecks |-> 0]

waitForEc2TransitGatewayPeeringAttachmentAcceptance(obs, elapsed) ==
  ReturnErr(WaitForState(TransitGatewayPeeringAttachmentAcceptanceConf, obs, elapsed))

TransitGatewayPeeringAttachmentCreationConf ==
  [Pending |-> {"failing", "pending", "initiatingRequest"},
   Target |-> {"available", "pendingAcceptance"},
   Timeout |-> 10 * Minute, NotFoundChecks |-> 0]

waitForEc2TransitGatewayPeeringAttachmentCreation(obs, elapsed) ==
  ReturnErr(WaitForState(TransitGatewayPeeringAttachmentCreationConf, obs, elapsed))

TransitGatewayPeeringAttachmentDeletionConf ==
  [Pending |-> {"available", "deleting", "pendingAcceptance", "rejected"},
   Target |-> {Deleted},
   Timeout |-> 10 * Minute, NotFoundChecks |-> 0]

waitForEc2TransitGatewayPeeringAttachmentDeletion(obs, elapsed) ==
  ReturnNilIfNotFound(WaitForState(TransitGatewayPeeringAttachmentDeletionConf, obs, elapsed))

TransitGatewayVpcAttachmentAcceptanceConf ==
  [Pending |-> {"pending", "pendingAcceptance"},
   Target |-> {"available"},
   Timeout |-> 10 * Minute, NotFoundChecks |-> 0]

waitForEc2TransitGatewayVpcAttachmentAcceptance(obs, elapsed) ==
  ReturnErr(WaitForState(TransitGatewayVpcAttachmentAcceptanceConf, obs, elapsed))

TransitGatewayVpcAttachmentCreationConf ==
  [Pending |-> {"pending"},
   Target |-> {"pendingAcceptance", "available"},
   Timeout |-> 10 * Minute, NotFoundChecks |-> 0]

\* the creation wait run with the states of the acceptance wait
waitForEc2TransitGatewayVpcAttachmentCreationAsAcceptance(obs, elapsed) ==
  ReturnErr(WaitForState(TransitGatewayVpcAttachmentAcceptanceConf, obs, elapsed))

waitForEc2TransitGatewayVpcAttachmentCreation(obs, elapsed) ==
  ReturnErr(WaitForState(TransitGatewayVpcAttachmentCreationConf, obs, elapsed))

\* the deletion wait's configuration with a timeout of eleven minutes
TransitGatewayVpcAttachmentDeletionConfElevenMinutes ==
  [Pending |-> {"available", "deleting"},
   Target |-> {Deleted},
   Timeout |-> 11 * Minute, NotFoundChecks |-> 1]

TransitGatewayVpcAttachmentDeletionConf ==
  [Pending |-> {"available", "deleting"},
   Target |-> {Deleted},
   Timeout |-> 10 * Minute, NotFoundChecks |-> 1]

waitForEc2TransitGatewayVpcAttachmentDeletion(obs, elapsed) ==
  ReturnNilIfNotFound(WaitForState(TransitGatewayVpcAttachmentDeletionConf, obs, elapsed))

TransitGatewayVpcAttachmentUpdateConf ==
  [Pending |-> {"modifying"},
   Target |-> {"available"},
   Timeout |-> 10 * Minute, NotFoundChecks |-> 0]

waitForEc2TransitGatewayVpcAttachmentUpdate(obs, elapsed) ==
  ReturnErr(WaitForState(TransitGatewayVpcAttachmentUpdateConf, obs, elapsed))

TransitGatewayMulticastDomainCreationConf ==
  [Pending |-> {"pending"},
   Target |-> {"available"},
   Timeout |-> 10 * Minute, NotFoundChecks |-> 0]

waitForEc2TransitGatewayMulticastDomainCreation(obs, elapsed) ==
  ReturnErr(WaitForState(TransitGatewayMulticastDomainCreationConf, obs, elapsed))

TransitGatewayMulticastDomainDeletionConf ==
  [Pending |-> {"available", "deleting"},
   Target |-> {Deleted},
   Timeout |-> 10 * Minute, NotFoundChecks |-> 1]

waitForEc2TransitGatewayMulticastDomainDeletion(obs, elapsed) ==
  ReturnNilIfNotFound(WaitForState(TransitGatewayMulticastDomainDeletionConf, obs, elapsed))

\* the wait of the directory sweeper, and the error the sweeper returns
\* the sweeper's configuration with DEREGISTERING accepted as a target
WorkspacesDirectoryDeregisteredConfDeregistering ==
  [Pending |-> {"REGISTERING", "REGISTERED"},
   Target |-> {"DEREGISTERING", "DEREGISTERED"},
   Timeout |-> 10 * Minute, NotFoundChecks |-> 0]

WorkspacesDirectoryDeregisteredConf ==
  [Pending |-> {"REGISTERING", "REGISTERED", "DEREGISTERING"},
   Target |-> {"DEREGISTERED"},
   Timeout |-> 10 * Minute, NotFoundChecks |-> 0]

testSweepWorkspacesDirectoriesWait(obs, elapsed) ==
  LET err == WaitForState(WorkspacesDirectoryDeregisteredConf, obs, elapsed)
  IN [engine |-> err,
      ret |-> IF err.class \in {"Running", "Success"} THEN err
              ELSE Failure(err.class, {"directoryID"})]

\* the wait function behind each name of waitFn
WaitOutcome(w, obs, elapsed) ==
  CASE w = "TransitGatewayCreation" ->
         waitForEc2TransitGatewayCreation(obs, elapsed)
    [] w = "TransitGatewayDeletion" ->
         waitForEc2TransitGatewayDeletion(obs, elapsed)
    [] w = "RouteTableCreation" ->
         waitForEc2TransitGatewayRouteTableCreation(obs, elapsed)
    [] w = "RouteTableDeletion" ->
         waitForEc2TransitGatewayRouteTableDeletion(obs, elapsed)
    [] w = "RouteTableAssociationCreation" ->
         waitForEc2TransitGatewayRouteTableAssociationCreation(obs, elapsed)
    [] w = "RouteTableAssociationDeletion" ->
         waitForEc2TransitGatewayRouteTableAssociationDeletion(obs, elapsed)
    [] w = "PeeringAttachmentAcceptance" ->
         waitForEc2TransitGatewayPeeringAttachmentAcceptance(obs, elapsed)
    [] w = "PeeringAttachmentCreation" ->
         waitForEc2TransitGatewayPeeringAttachmentCreation(obs, elapsed)
    [] w = "PeeringAttachmentDeletion" ->
         waitForEc2TransitGatewayPeeringAttachmentDeletion(obs, elapsed)
    [] w = "VpcAttachmentAcceptance" ->
         waitForEc2TransitGatewayVpcAttachmentAcceptance(obs, elapsed)
    [] w = "VpcAttachmentCreation" ->
         waitForEc2TransitGatewayVpcAttachmentCreation(obs, elapsed)
    [] w = "VpcAttachmentDeletion" ->
         waitForEc2TransitGatewayVpcAttachmentDeletion(obs, elapsed)
    [] w = "VpcAttachmentUpdate" ->
         waitForEc2TransitGatewayVpcAttachmentUpdate(obs, elapsed)
    [] w = "MulticastDomainCreation" ->
         waitForEc2TransitGatewayMulticastDomainCreation(obs, elapsed)
    [] w = "MulticastDomainDeletion" ->
         waitForEc2TransitGatewayMulticastDomainDeletion(obs, elapsed)
    [] w = "WorkspacesDirectoryDeregistered" ->
         testSweepWorkspacesDirectoriesWait(obs, elapsed)

\* the register check with its two loops exchanged: every returned group
\* must be one of the net ids
GroupRegisterRetryFuncSwapped(ids, grp, searchErr) ==
  IF searchErr THEN "NonRetryable"
  ELSE IF \E group \in grp : ~(\E netID \in ids : group = netID)
       THEN "Retryable"
  ELSE "nil"

\* the function handed to resource.Retry by the register wait
GroupRegisterRetryFunc(ids, grp, searchErr) ==
  IF searchErr THEN "NonRetryable"
  ELSE IF \E netID \in ids : ~(\E group \in grp : group = netID)
       THEN "Retryable"
  ELSE "nil"

\* the deregister check asking for retry only while every net id is found
GroupDeregisterRetryFuncAll(ids, grp, searchErr) ==
  IF searchErr THEN "NonRetryable"
  ELSE IF \A netID \in ids : \E group \in grp : group = netID
       THEN "Retryable"
  ELSE "nil"

\* the function handed to resource.Retry by the deregister wait
GroupDeregisterRetryFunc(ids, grp, searchErr) ==
  IF searchErr THEN "NonRetryable"
  ELSE IF \E netID \in ids : \E group \in grp : group = netID
       THEN "Retryable"
  ELSE "nil"

\* the register wait without its timeout branch
waitForGroupRegisterTimeoutDropped(rerr, elapsed) ==
  LET err == Retry(rerr, elapsed)
  IN [engine |-> err, ret |-> IF err = Running THEN Running ELSE Success]

waitForEc2TransitGatewayMulticastDomainGroupRegister(rerr, elapsed) ==
  LET err == Retry(rerr, elapsed)
  IN [engine |-> err,
      ret |-> IF err = Running THEN Running
              ELSE IF isResourceTimeoutError(err)
                   THEN Failure("Timeout", {"domainID", "registered"})
              ELSE Success]

waitForEc2TransitGatewayMulticastDomainGroupDeregister(rerr, elapsed) ==
  LET err == Retry(rerr, elapsed)
  IN [engine |-> err,
      ret |-> IF err = Running THEN Running
              ELSE IF isResourceTimeoutError(err)
                   THEN Failure("Timeout", {"domainID", "deregistered"})
              ELSE Success]

\* ------------------------------------------------------ paginated calls
\* What the remote answers a paginated call with, page by page: a request
\* error, no output, or a page of entries.  An entry is the resource asked
\* for, another resource, or a nil pointer.  Every page but the last carries
\* a continuation token.
EntryValues == {"wanted", "other", "nil"}
PageEntries == UNION {[1..n -> EntryValues] : n \in 0..MaxPageLen}
PageOutcomes ==
  {[kind |-> "error", entries |-> <<>>], [kind |-> "nil", entries |-> <<>>]}
  \cup {[kind |-> "page", entries |-> e] : e \in PageEntries}
PageSequences == UNION {[1..n -> PageOutcomes] : n \in 1..MaxPages}
NextToken(pages, i) == i < Len(pages)

\* the result of a paginated function: the resource found or the list
\* collected, the error, and the number of pages requested
Returned(found, list, err, requested) ==
  [found |-> found, list |-> list, err |-> err, requested |-> requested]
NotCalled == Returned("none", <<>>, "none", 0)

\* the loop of the describe functions that follow the continuation token
RECURSIVE DescribePages(_, _)
DescribePages(pages, i) ==
  LET output == pages[i]
  IN IF output.kind = "error" THEN Returned("nil", <<>>, "RequestError", i)
     ELSE IF output.kind = "nil" \/ Len(output.entries) = 0
          THEN Returned("nil", <<>>, "nil", i)
     ELSE IF \E k \in 1..Len(output.entries) : output.entries[k] = "wanted"
          THEN Returned("wanted", <<>>, "nil", i)
     ELSE IF ~NextToken(pages, i) THEN Returned("nil", <<>>, "nil", i)
     ELSE DescribePages(pages, i + 1)

ec2DescribeTransitGateway(pages) == DescribePages(pages, 1)
ec2DescribeTransitGatewayRouteTable(pages) == DescribePages(pages, 1)
ec2DescribeTransitGatewayPeeringAttachment(pages) == DescribePages(pages, 1)
ec2DescribeTransitGatewayVpcAttachment(pages) == DescribePages(pages, 1)

\* the loop of the list functions keeping only the entries of the last page
RECURSIVE CollectPagesLastPage(_, _, _)
CollectPagesLastPage(pages, i, collected) ==
  LET output == pages[i]
  IN IF output.kind = "error" THEN Returned("nil", <<>>, "RequestError", i)
     ELSE IF output.kind = "nil" THEN Returned("nil", <<>>, "nil", i)
     ELSE IF ~NextToken(pages, i)
          THEN Returned("nil", output.entries, "nil", i)
     ELSE CollectPagesLastPage(pages, i + 1, output.entries)

\* the loop of the list functions: append every entry of every page
RECURSIVE CollectPages(_, _, _)
CollectPages(pages, i, collected) ==
  LET output == pages[i]
  IN IF output.kind = "error" THEN Returned("nil", <<>>, "RequestError", i)
     ELSE IF output.kind = "nil" THEN Returned("nil", <<>>, "nil", i)
     ELSE IF ~NextToken(pages, i)
          THEN Returned("nil", collected \o output.entries, "nil", i)
     ELSE CollectPages(pages, i + 1, collected \o output.entries)

ec2GetTransitGatewayMulticastDomainAssociationsPaged(pages) ==
  CollectPages(pages, 1, <<>>)
ec2SearchTransitGatewayMulticastDomainGroups(pages) ==
  CollectPages(pages, 1, <<>>)

PagedDescribes ==
  {"ec2DescribeTransitGateway", "ec2DescribeTransitGatewayRouteTable",
   "ec2DescribeTransitGatewayPeeringAttachment",
   "ec2DescribeTransitGatewayVpcAttachment"}
ListCollectors ==
  {"ec2GetTransitGatewayMulticastDomainAssociations",
   "ec2SearchTransitGatewayMulticastDomainGroups"}
NoLookup == [fn |-> "none", pages |-> <<>>, out |-> NotCalled]
Lookups ==
  {[fn |-> f, pages |-> ps, out |-> NotCalled] :
     f \in PagedDescribes \cup ListCollectors, ps \in PageSequences}

\* ------------------------------------------------------------ state machine
\* ------------------------------------------- workspaces directory sweeper
\* what one DescribeWorkspaceDirectories request is answered with: an error
\* the sweeper skips, any other error, or a page of dirs directories
ListingOutcomes ==
  {[kind |-> "skip", dirs |-> 0], [kind |-> "error", dirs |-> 0]}
    \cup {[kind |-> "page", dirs |-> n] : n \in 0..MaxDirs}
Listings == UNION {[1..n -> ListingOutcomes] : n \in 1..MaxPages}

\* A run of the sweeper: at is its position, page and dir the listing page
\* and directory it is at, waited the polls of the wait in progress, events
\* the deregister calls issued and the labels its waits succeeded on, err
\* what it returned.
NoSweep ==
  [pages |-> <<>>, at |-> "None", page |-> 0, dir |-> 0, waited |-> 0,
   events |-> <<>>, err |-> Running]
Sweeps ==
  {[pages |-> p, at |-> "Client", page |-> 0, dir |-> 0, waited |-> 0,
    events |-> <<>>, err |-> Running] : p \in Listings}
SweepEvent(op, page, dir, label) ==
  [op |-> op, page |-> page, dir |-> dir, label |-> label]

Init ==
  /\ sweep \in {NoSweep} \cup Sweeps
  /\ lookup \in (IF sweep = NoSweep THEN {NoLookup} \cup Lookups
                 ELSE {NoLookup})
  /\ update \in (IF lookup = NoLookup /\ sweep = NoSweep
                 THEN {NoUpdate} \cup Updates
                 ELSE {NoUpdate})
  /\ waitFn \in (IF update = NoUpdate /\ lookup = NoLookup /\ sweep = NoSweep
                 THEN AssociationWaits \cup GroupWaits \cup ResourceWaits
                 ELSE {"none"})
  /\ subnetIDs \in (IF waitFn \in AssociationWaits THEN SUBSET Subnets ELSE {{}})
  /\ remote \in (IF waitFn \in AssociationWaits
                 THEN [Subnets -> Labels \cup {Absent}]
                 ELSE {[s \in Subnets |-> Absent]})
  /\ netIDs \in (IF waitFn \in GroupWaits THEN SUBSET NetIfs ELSE {{}})
  /\ groups \in (IF waitFn \in GroupWaits THEN SUBSET NetIfs ELSE {{}})
  /\ pc = "Polling"
  /\ ticks = 0
  /\ subnetStates = <<>>
  /\ result = NoResult
  /\ history = <<>>
  /\ ret = Running
  /\ described = NotDescribed
  /\ trace = <<>>

\* The control plane moves one subnet's association between two polls.
RemoteChange ==
  /\ pc = "Polling"
  /\ waitFn \in AssociationWaits
  /\ \E s \in Subnets, v \in Labels \cup {Absent} :
       /\ v # remote[s]
       /\ remote' = [remote EXCEPT ![s] = v]
  /\ subnetStates' = <<>>
  /\ result' = NoResult
  /\ described' = NotDescribed
  /\ UNCHANGED <<waitFn, subnetIDs, netIDs, groups, pc, ticks, history, ret,
                 update, trace,
                 lookup, sweep>>

\* A group member appears in, or disappears from, the search results.
GroupsChange ==
  /\ pc = "Polling"
  /\ waitFn \in GroupWaits
  /\ \E n \in NetIfs :
       groups' = IF n \in groups THEN groups \ {n} ELSE groups \cup {n}
  /\ UNCHANGED <<waitFn, subnetIDs, remote, netIDs, pc, ticks, subnetStates,
                 result, history, ret,
                 described, update, trace,
                 lookup, sweep>>

\* what one poll of an association wait leaves behind: the map and the
\* observation of the refresh function, the engine's state and the return
AssociationPolled(reqErr, obs, out) ==
  /\ subnetStates' =
       IF reqErr THEN <<>>
       ELSE BuildSubnetStates(
              subnetIDs,
              ec2GetTransitGatewayMulticastDomainAssociations(remote, reqErr).associations)
  /\ result' = obs
  /\ described' = [api |-> IF reqErr THEN "error" ELSE "found",
                   code |-> IF reqErr THEN "InternalError" ELSE "",
                   state |-> "", status |-> FALSE]
  /\ ret' = out.ret
  /\ pc' = PcOf(out.engine)
  /\ ticks' = ticks + 1
  /\ UNCHANGED <<waitFn, subnetIDs, remote, netIDs, groups, history,
                 update, trace,
                 lookup, sweep>>

\* one poll of the association wait: fetch, reduce, engine tick
PollAssociation ==
  /\ waitFn = "Association"
  /\ pc = "Polling"
  /\ \/ LET obs == ec2TransitGatewayMulticastDomainAssociationRefreshFunc(
                      remote, TRUE, subnetIDs, <<>>)
        IN AssociationPolled(
             TRUE, obs,
             waitForEc2TransitGatewayMulticastDomainAssociation(obs, ticks + 1))
     \/ \E order \in IterationOrders(subnetIDs) :
          LET obs == ec2TransitGatewayMulticastDomainAssociationRefreshFunc(
                       remote, FALSE, subnetIDs, order)
          IN AssociationPolled(
               FALSE, obs,
               waitForEc2TransitGatewayMulticastDomainAssociation(obs, ticks + 1))

\* one poll of the disassociation wait
PollDisassociation ==
  /\ waitFn = "Disassociation"
  /\ pc = "Polling"
  /\ \/ LET obs == ec2TransitGatewayMulticastDomainAssociationRefreshFunc(
                      remote, TRUE, subnetIDs, <<>>)
        IN AssociationPolled(
             TRUE, obs,
             waitForEc2TransitGatewayMulticastDomainDisassociation(obs, ticks + 1))
     \/ \E order \in IterationOrders(subnetIDs) :
          LET obs == ec2TransitGatewayMulticastDomainAssociationRefreshFunc(
                       remote, FALSE, subnetIDs, order)
          IN AssociationPolled(
               FALSE, obs,
               waitForEc2TransitGatewayMulticastDomainDisassociation(obs, ticks + 1))

\* what one evaluation of a group wait leaves behind; visible is whether the
\* awaited condition held in the search results
GroupEvaluated(searchErr, visible, out) ==
  /\ ret' = out.ret
  /\ pc' = PcOf(out.engine)
  /\ history' = Append(history,
                       IF searchErr THEN "error"
                       ELSE IF visible THEN "visible" ELSE "notVisible")
  /\ ticks' = ticks + 1
  /\ UNCHANGED <<waitFn, subnetIDs, remote, netIDs, groups, subnetStates, result,
                 described, update, trace,
                 lookup, sweep>>

\* one evaluation of the function retried by the register wait
EvaluateGroupRegister ==
  /\ waitFn = "GroupRegister"
  /\ pc = "Polling"
  /\ \E searchErr \in BOOLEAN :
       GroupEvaluated(
         searchErr, netIDs \subseteq groups,
         waitForEc2TransitGatewayMulticastDomainGroupRegister(
           GroupRegisterRetryFunc(netIDs, groups, searchErr), ticks + 1))

\* one evaluation of the function retried by the deregister wait
EvaluateGroupDeregister ==
  /\ waitFn = "GroupDeregister"
  /\ pc = "Polling"
  /\ \E searchErr \in BOOLEAN :
       GroupEvaluated(
         searchErr, netIDs \cap groups = {},
         waitForEc2TransitGatewayMulticastDomainGroupDeregister(
           GroupDeregisterRetryFunc(netIDs, groups, searchErr), ticks + 1))

\* what one poll of a single-resource wait leaves behind
ResourcePolled(d, obs, out) ==
  /\ described' = d
  /\ result' = obs
  /\ history' = Append(history, IF obs.err = "nil" THEN obs.state ELSE "error")
  /\ ret' = out.ret
  /\ pc' = PcOf(out.engine)
  /\ ticks' = ticks + 1
  /\ UNCHANGED <<waitFn, subnetIDs, remote, netIDs, groups, subnetStates,
                 update, trace,
                 lookup, sweep>>

\* one poll of a wait on a transit gateway
PollTransitGateway ==
  /\ waitFn \in TransitGatewayWaits
  /\ pc = "Polling"
  /\ \E d \in DescribeOutcomes(TransitGatewayStates) :
       LET obs == ec2TransitGatewayRefreshFunc(d)
       IN ResourcePolled(d, obs, WaitOutcome(waitFn, obs, ticks + 1))

\* one poll of a wait on a transit gateway route table
PollRouteTable ==
  /\ waitFn \in RouteTableWaits
  /\ pc = "Polling"
  /\ \E d \in DescribeOutcomes(RouteTableStates) :
       LET obs == ec2TransitGatewayRouteTableRefreshFunc(d)
       IN ResourcePolled(d, obs, WaitOutcome(waitFn, obs, ticks + 1))

\* one poll of a wait on a route table association
PollRouteTableAssociation ==
  /\ waitFn \in RouteTableAssociationWaits
  /\ pc = "Polling"
  /\ \E d \in DescribeOutcomes(RouteTableAssociationStates) :
       LET obs == ec2TransitGatewayRouteTableAssociationRefreshFunc(d)
       IN ResourcePolled(d, obs, WaitOutcome(waitFn, obs, ticks + 1))

\* one poll of a wait on a peering attachment
PollPeeringAttachment ==
  /\ waitFn \in PeeringAttachmentWaits
  /\ pc = "Polling"
  /\ \E d \in PeeringDescribeOutcomes :
       LET obs == ec2TransitGatewayPeeringAttachmentRefreshFunc(d)
       IN ResourcePolled(d, obs, WaitOutcome(waitFn, obs, ticks + 1))

\* one poll of a wait on a VPC attachment
PollVpcAttachment ==
  /\ waitFn \in VpcAttachmentWaits
  /\ pc = "Polling"
  /\ \E d \in DescribeOutcomes(AttachmentStates) :
       LET obs == ec2TransitGatewayVpcAttachmentRefreshFunc(d)
       IN ResourcePolled(d, obs, WaitOutcome(waitFn, obs, ticks + 1))

\* one poll of a wait on a multicast domain
PollMulticastDomain ==
  /\ waitFn \in MulticastDomainWaits
  /\ pc = "Polling"
  /\ \E d \in DescribeOutcomes(MulticastDomainStates) :
       LET obs == ec2TransitGatewayMulticastDomainRefreshFunc(d)
       IN ResourcePolled(d, obs, WaitOutcome(waitFn, obs, ticks + 1))

\* one poll of the sweeper's wait on a workspaces directory
PollWorkspacesDirectory ==
  /\ waitFn \in WorkspacesWaits
  /\ pc = "Polling"
  /\ \E d \in DescribeOutcomes(WorkspaceDirectoryStates) :
       LET obs == workspacesDirectoryRefreshStateFunc(d)
       IN ResourcePolled(d, obs, WaitOutcome(waitFn, obs, ticks + 1))

\* ------------------------------------------------------ update functions
\* the API call an update function issues for its argument
MutationOf(fn, flag) ==
  IF fn = "AssociationUpdate"
  THEN (IF flag THEN "Associate" ELSE "Disassociate")
  ELSE (IF flag THEN "Enable" ELSE "Disable")
Mutations == {MutationOf(f, b) : f \in UpdateFns, b \in BOOLEAN}
\* an update function that issues its call whatever the describe call found
NeedsMutationAlways(flag, found) == found # "error"
\* whether the update function has anything to change, given what the
\* describe call found ("nil": no association / propagation)
NeedsMutation(flag, found) ==
  (flag /\ found = "nil") \/ (~flag /\ found = "found")
\* where the update function goes once its API call has succeeded
AfterMutation(fn) == IF fn = "AssociationUpdate" THEN "Wait" ELSE "Returned"
\* the error an update function makes of the error of a call
WrappedError(err) ==
  IF err = Success THEN Success
  ELSE Failure(err.class, {"transitGatewayRouteTableID",
                           "transitGatewayAttachmentID"})

\* the describe call at the start of an update function and the branch taken
UpdateDescribe ==
  /\ update.at = "Describe"
  /\ \E found \in {"error", "nil", "found"},
        state \in RouteTableAssociationStates \cup {""} :
       /\ state # "" <=> (found = "found" /\ update.fn = "AssociationUpdate")
       /\ update' =
         [update EXCEPT
            !.found = found,
            !.state = state,
            !.at = IF found # "error" /\ NeedsMutation(update.flag, found)
                   THEN "Mutate" ELSE "Returned",
            !.err = IF found = "error"
                    THEN WrappedError(Failure("RequestError", {}))
                    ELSE IF NeedsMutation(update.flag, found) THEN Running
                    ELSE Success]
  /\ trace' = Append(trace, "Describe")
  /\ UNCHANGED <<waitFn, subnetIDs, remote, netIDs, groups, pc, ticks,
                 subnetStates, result, history, ret, described,
                 lookup, sweep>>

\* the associate / disassociate / enable / disable call
UpdateMutate ==
  /\ update.at = "Mutate"
  /\ \E failed \in BOOLEAN :
       update' =
         [update EXCEPT
            !.at = IF failed THEN "Returned" ELSE AfterMutation(update.fn),
            !.err = IF failed THEN WrappedError(Failure("RequestError", {}))
                    ELSE IF AfterMutation(update.fn) = "Returned" THEN Success
                    ELSE Running]
  /\ trace' = Append(trace, MutationOf(update.fn, update.flag))
  /\ UNCHANGED <<waitFn, subnetIDs, remote, netIDs, groups, pc, ticks,
                 subnetStates, result, history, ret, described,
                 lookup, sweep>>

\* the association update calls the wait function of its branch
UpdateWait ==
  /\ update.at = "Wait"
  /\ waitFn = "none"
  /\ waitFn' = IF update.flag THEN "RouteTableAssociationCreation"
               ELSE "RouteTableAssociationDeletion"
  /\ trace' = Append(trace, "Wait")
  /\ UNCHANGED <<subnetIDs, remote, netIDs, groups, pc, ticks, subnetStates,
                 result, history, ret, described, update,
                 lookup, sweep>>

\* the wait function has returned and the association update returns
UpdateReturn ==
  /\ update.at = "Wait"
  /\ waitFn # "none"
  /\ pc # "Polling"
  /\ update' = [update EXCEPT !.at = "Returned", !.err = WrappedError(ret)]
  /\ UNCHANGED <<waitFn, subnetIDs, remote, netIDs, groups, pc, ticks,
                 subnetStates, result, history, ret, described, trace,
                 lookup, sweep>>

\* --------------------------------------------------- paginated lookups
\* a paginated function has run over the pages and returned
LookupReturned(out) ==
  /\ lookup.out = NotCalled
  /\ lookup' = [lookup EXCEPT !.out = out]
  /\ UNCHANGED <<waitFn, subnetIDs, remote, netIDs, groups, pc, ticks,
                 subnetStates, result, history, ret, described, update, trace,
                 sweep>>

DescribeTransitGateway ==
  /\ lookup.fn = "ec2DescribeTransitGateway"
  /\ LookupReturned(ec2DescribeTransitGateway(lookup.pages))

DescribeTransitGatewayRouteTable ==
  /\ lookup.fn = "ec2DescribeTransitGatewayRouteTable"
  /\ LookupReturned(ec2DescribeTransitGatewayRouteTable(lookup.pages))

DescribeTransitGatewayPeeringAttachment ==
  /\ lookup.fn = "ec2DescribeTransitGatewayPeeringAttachment"
  /\ LookupReturned(ec2DescribeTransitGatewayPeeringAttachment(lookup.pages))

DescribeTransitGatewayVpcAttachment ==
  /\ lookup.fn = "ec2DescribeTransitGatewayVpcAttachment"
  /\ LookupReturned(ec2DescribeTransitGatewayVpcAttachment(lookup.pages))

GetTransitGatewayMulticastDomainAssociations ==
  /\ lookup.fn = "ec2GetTransitGatewayMulticastDomainAssociations"
  /\ LookupReturned(
       ec2GetTransitGatewayMulticastDomainAssociationsPaged(lookup.pages))

SearchTransitGatewayMulticastDomainGroups ==
  /\ lookup.fn = "ec2SearchTransitGatewayMulticastDomainGroups"
  /\ LookupReturned(ec2SearchTransitGatewayMulticastDomainGroups(lookup.pages))

\* ------------------------------------------- workspaces directory sweeper
\* sharedClientForRegion
SweepClient ==
  /\ sweep.at = "Client"
  /\ \E ok \in BOOLEAN :
       sweep' = IF ok THEN [sweep EXCEPT !.at = "List", !.page = 1]
                ELSE [sweep EXCEPT !.at = "Done",
                                   !.err = Failure("ClientError", {})]
  /\ UNCHANGED <<waitFn, subnetIDs, remote, netIDs, groups, pc, ticks,
                 subnetStates, result, history, ret, described, update,
                 trace, lookup>>

\* the end of the loop over one page's directories: the next page if the
\* response carried a token, the return of nil otherwise
SweepAfterPage(sw) ==
  IF sw.page < Len(sw.pages)
  THEN [sw EXCEPT !.at = "List", !.page = sw.page + 1, !.dir = 0]
  ELSE [sw EXCEPT !.at = "Done", !.err = Success]
\* the step after the directory at sw.dir has been handled
SweepNextDirectory(sw) ==
  IF sw.dir < sw.pages[sw.page].dirs
  THEN [sw EXCEPT !.at = "Deregister", !.dir = sw.dir + 1, !.waited = 0]
  ELSE SweepAfterPage(sw)

\* one DescribeWorkspaceDirectories request and the checks on its answer
SweepList ==
  /\ sweep.at = "List"
  /\ LET resp == sweep.pages[sweep.page]
     IN sweep' =
          IF resp.kind = "skip"
          THEN [sweep EXCEPT !.at = "Done", !.err = Success]
          ELSE IF resp.kind = "error"
          THEN [sweep EXCEPT !.at = "Done",
                             !.err = Failure("ListError", {})]
          ELSE SweepNextDirectory(sweep)
  /\ UNCHANGED <<waitFn, subnetIDs, remote, netIDs, groups, pc, ticks,
                 subnetStates, result, history, ret, described, update,
                 trace, lookup>>

\* DeregisterWorkspaceDirectory for the directory the loop is at
SweepDeregister ==
  /\ sweep.at = "Deregister"
  /\ \E ok \in BOOLEAN :
       LET issued == [sweep EXCEPT !.events =
                        Append(@, SweepEvent("Deregister", sweep.page,
                                             sweep.dir, ""))]
       IN sweep' =
            IF ok THEN [issued EXCEPT !.at = "Wait"]
            ELSE [issued EXCEPT !.at = "Done",
                                !.err = Failure("DeregisterError",
                                                {"directoryID"})]
  /\ UNCHANGED <<waitFn, subnetIDs, remote, netIDs, groups, pc, ticks,
                 subnetStates, result, history, ret, described, update,
                 trace, lookup>>

\* one poll of the wait that follows a deregister call
SweepWait ==
  /\ sweep.at = "Wait"
  /\ \E d \in DescribeOutcomes(WorkspaceDirectoryStates) :
       LET obs == workspacesDirectoryRefreshStateFunc(d)
           out == testSweepWorkspacesDirectoriesWait(obs, sweep.waited + 1)
       IN sweep' =
            IF out.engine = Running
            THEN [sweep EXCEPT !.waited = @ + 1]
            ELSE IF out.engine = Success
            THEN SweepNextDirectory(
                   [sweep EXCEPT !.events =
                      Append(@, SweepEvent("Observed", sweep.page,
                                           sweep.dir, obs.state))])
            ELSE [sweep EXCEPT !.at = "Done", !.err = out.ret]
  /\ UNCHANGED <<waitFn, subnetIDs, remote, netIDs, groups, pc, ticks,
                 subnetStates, result, history, ret, described, update,
                 trace, lookup>>

Next ==
  \/ RemoteChange
  \/ GroupsChange
  \/ PollAssociation
  \/ PollDisassociation
  \/ EvaluateGroupRegister
  \/ EvaluateGroupDeregister
  \/ PollTransitGateway
  \/ PollRouteTable
  \/ PollRouteTableAssociation
  \/ PollPeeringAttachment
  \/ PollVpcAttachment
  \/ PollMulticastDomain
  \/ PollWorkspacesDirectory
  \/ UpdateDescribe
  \/ UpdateMutate
  \/ UpdateWait
  \/ UpdateReturn
  \/ DescribeTransitGateway
  \/ DescribeTransitGatewayRouteTable
  \/ DescribeTransitGatewayPeeringAttachment
  \/ DescribeTransitGatewayVpcAttachment
  \/ GetTransitGatewayMulticastDomainAssociations
  \/ SearchTransitGatewayMulticastDomainGroups
  \/ SweepClient
  \/ SweepList
  \/ SweepDeregister
  \/ SweepWait

Spec == Init /\ [][Next]_vars

\* one remote read of a wait in progress, with the engine's tick on it
Poll ==
  \/ PollAssociation
  \/ PollDisassociation
  \/ EvaluateGroupRegister
  \/ EvaluateGroupDeregister
  \/ PollTransitGateway
  \/ PollRouteTable
  \/ PollRouteTableAssociation
  \/ PollPeeringAttachment
  \/ PollVpcAttachment
  \/ PollMulticastDomain
  \/ PollWorkspacesDirectory

\* The waits and updates alone, where every remote read of a wait in
\* progress returns.
LiveInit == Init /\ lookup = NoLookup /\ sweep = NoSweep
LiveNext ==
  \/ RemoteChange
  \/ GroupsChange
  \/ Poll
  \/ UpdateDescribe
  \/ UpdateMutate
  \/ UpdateWait
  \/ UpdateReturn
LiveSpec == LiveInit /\ [][LiveNext]_vars /\ WF_vars(Poll)

\* ------------------------------------------------------------ properties
\* the label a tracked subnet has in the list fetched by the latest poll
LabelOf(id) == IF remote[id] = Absent THEN Disassociated ELSE remote[id]
TrackedLabels == {LabelOf(id) : id \in subnetIDs}
\* the refresh function has run on the current associations without a
\* request error
Reduced ==
  /\ waitFn \in AssociationWaits
  /\ result # NoResult
  /\ result.err # "RequestError"

\* C1: the association wait returns success only if every tracked subnet is
\* "associated" in the list fetched by the poll at which it returns.
AssociationBarrier ==
  (waitFn = "Association" /\ ret = Success)
    => \A id \in subnetIDs : remote[id] = Associated

\* C2: the disassociation wait returns success only if every tracked subnet
\* is "disassociated" or absent in the list fetched by the poll at which it
\* returns.
DisassociationBarrier ==
  (waitFn = "Disassociation" /\ ret = Success)
    => \A id \in subnetIDs : remote[id] \in {Disassociated, Absent}

\* C3: whenever a tracked subnet is "associating" or "disassociating", the
\* refresh function returns an in-progress label and a nil error.
InProgressWins ==
  (Reduced /\ TrackedLabels \cap InProgressLabels # {})
    => (result.err = "nil" /\ result.state \in InProgressLabels)

\* C4: with no in-progress label and both "associated" and "disassociated"
\* among the tracked subnets, the refresh function returns the conflicting
\* association states error and no label.
ConflictingStatesReported ==
  (/\ Reduced
   /\ TrackedLabels \cap InProgressLabels = {}
   /\ {Associated, Disassociated} \subseteq TrackedLabels)
    => (result.err = "ConflictingStates" /\ result.state = "")

\* C5: a tracked subnet with a label outside the five association labels
\* makes the refresh function return the unhandled association state error.
UnhandledStateReported ==
  (Reduced /\ \E id \in subnetIDs : LabelOf(id) \notin RecognizedLabels)
    => result.err = "Unhandled"

\* C6: before the reduction every tracked subnet missing from the fetched
\* list has state "disassociated", every tracked subnet in the list has the
\* state listed for it, only tracked subnets are in the map, and the compound
\* state is the label of a tracked subnet.
AbsenceConvention ==
  Reduced =>
    /\ DOMAIN subnetStates = subnetIDs
    /\ \A id \in subnetIDs : subnetStates[id] = LabelOf(id)
    /\ \A id \in subnetIDs :
         remote[id] = Absent => subnetStates[id] = Disassociated
    /\ (result.err = "nil" /\ subnetIDs # {}) => result.state \in TrackedLabels

\* C6 witness: a tracked subnet is absent from the list and an untracked
\* subnet is listed with a label that is not the compound state.
AbsenceConventionWitness ==
  /\ Reduced
  /\ result.err = "nil"
  /\ \E id \in subnetIDs : remote[id] = Absent
  /\ \E s \in Subnets \ subnetIDs :
       remote[s] # Absent /\ remote[s] # result.state

\* C7: when all tracked subnets of a non-empty set are "associated", or all
\* are "disassociated" or absent, the refresh function returns that label
\* with a nil error.
UniformTerminalLabel ==
  \A L \in {Associated, Disassociated} :
    (Reduced /\ TrackedLabels = {L})
      => result = [payload |-> "associations", state |-> L, err |-> "nil"]

\* C7 witness: two tracked subnets, both "associated", reduced to "associated".
UniformTerminalLabelWitness ==
  /\ Reduced
  /\ Cardinality(subnetIDs) >= 2
  /\ \A id \in subnetIDs : remote[id] = Associated
  /\ result.state = Associated

\* the visibility outcome of the latest evaluation of a group wait
LastEvaluation == IF history = <<>> THEN "none" ELSE history[Len(history)]
AwaitedCondition ==
  IF waitFn = "GroupRegister" THEN "registered" ELSE "deregistered"

\* C8: when the group search fails, retrying stops at once and the group
\* wait returns a non-nil error to its caller.
SearchFailureReturned ==
  (waitFn \in GroupWaits /\ LastEvaluation = "error")
    => (pc = "Failed" /\ ret.class \notin {"Running", "Success"})

\* C9: when the awaited visibility is not reached by any evaluation within
\* the timeout, the group wait returns a Timeout error naming the multicast
\* domain and the awaited condition, and not success.
RetryTimeout ==
  (/\ waitFn \in GroupWaits
   /\ Len(history) >= TimeoutTicks
   /\ \A i \in 1..Len(history) : history[i] = "notVisible")
    => /\ pc = "TimedOut"
       /\ ret = Failure("Timeout", {"domainID", AwaitedCondition})

\* C9 witness: a register wait that saw the group missing at every
\* evaluation until the timeout, and has returned.
RetryTimeoutWitness ==
  /\ waitFn = "GroupRegister"
  /\ Len(history) = TimeoutTicks
  /\ \A i \in 1..Len(history) : history[i] = "notVisible"
  /\ ret.class # "Running"

\* C10: a group wait whose condition is not visible for the first k
\* evaluations (k below the timeout) and visible at evaluation k+1 succeeds
\* at evaluation k+1, not earlier, and evaluates nothing after it.
RetrySuccess ==
  waitFn \in GroupWaits =>
    /\ ticks = Len(history)
    /\ \A i \in 1..(Len(history) - 1) : history[i] = "notVisible"
    /\ pc = "Succeeded" <=> LastEvaluation = "visible"
    /\ LastEvaluation = "visible" => ret = Success

\* C10 witness: success at the third evaluation after two evaluations that
\* found the condition not visible.
RetrySuccessWitness ==
  /\ waitFn \in GroupWaits
  /\ history = <<"notVisible", "notVisible", "visible">>
  /\ ticks = 3
  /\ ret = Success

\* ------------------------------------------- single resource properties
DeletionWaits ==
  {"TransitGatewayDeletion", "RouteTableDeletion",
   "RouteTableAssociationDeletion", "PeeringAttachmentDeletion",
   "VpcAttachmentDeletion", "MulticastDomainDeletion", "Disassociation"}
\* the label by which the poller of a deletion wait reports absence
AbsenceLabel == IF waitFn = "Disassociation" THEN Disassociated ELSE Deleted
\* the latest poll reported the resource absent
ReportedAbsent ==
  /\ result # NoResult
  /\ result.err = "nil"
  /\ result.state = AbsenceLabel

\* C11: a deletion or disassociation wait whose poller reports the resource
\* absent on the very first poll returns success; this includes the route
\* table association deletion wait, whose target is {""}.
NotFoundTolerated ==
  (waitFn \in DeletionWaits /\ ticks = 1 /\ ReportedAbsent)
    => (pc = "Succeeded" /\ ret = Success)

NotFoundToleratedWitness ==
  /\ waitFn = "RouteTableAssociationDeletion"
  /\ ticks = 1
  /\ ReportedAbsent
  /\ result.payload = "nil"
  /\ ret = Success

\* the single-resource deletion waits by their NotFoundChecks
ChecksOnce ==
  {"TransitGatewayDeletion", "RouteTableDeletion",
   "RouteTableAssociationDeletion", "VpcAttachmentDeletion",
   "MulticastDomainDeletion"}
ChecksDefault == {"PeeringAttachmentDeletion"}

\* C12: with NotFoundChecks = 1 one observation of absence is enough for
\* success, with NotFoundChecks left at 0 likewise, and a read error of the
\* poller (no absence was observed before, the wait would have ended) makes
\* the wait fail.
NotFoundCheckCount ==
  /\ (waitFn \in ChecksOnce /\ ReportedAbsent /\ result.payload = "nil")
       => (pc = "Succeeded" /\ ret = Success)
  /\ (waitFn \in ChecksDefault /\ ReportedAbsent /\ result.payload = "nil")
       => (pc = "Succeeded" /\ ret = Success)
  /\ (waitFn \in ChecksOnce \cup ChecksDefault
      /\ result # NoResult /\ result.err # "nil")
       => (pc = "Failed" /\ ret.class \notin {"Success", "Running"}
           /\ \A i \in 1..(Len(history) - 1) : history[i] # Deleted)

NotFoundCheckCountWitness ==
  /\ waitFn = "TransitGatewayDeletion"
  /\ ticks = 2
  /\ history = <<"deleting", Deleted>>
  /\ result.payload = "nil"
  /\ ret = Success

\* the not-found code each kind's refresh function tests for
NotFoundCodeOf ==
  [w \in ResourceWaits \ WorkspacesWaits |->
     IF w \in TransitGatewayWaits THEN "InvalidTransitGatewayID.NotFound"
     ELSE IF w \in RouteTableWaits \cup RouteTableAssociationWaits
          THEN "InvalidRouteTableID.NotFound"
     ELSE IF w \in PeeringAttachmentWaits \cup VpcAttachmentWaits
          THEN "InvalidTransitGatewayAttachmentID.NotFound"
     ELSE "InvalidTransitGatewayMulticastDomainId.NotFound"]
\* the latest describe call found the resource missing
DescribedMissing ==
  /\ waitFn \in ResourceWaits \ WorkspacesWaits
  /\ \/ described.api = "empty"
     \/ described.api = "error" /\ described.code = NotFoundCodeOf[waitFn]

\* C13: every transit gateway poller reports both the kind's NotFound error
\* and an empty describe result as label "deleted" with a nil error.
PollerAbsenceMapping ==
  DescribedMissing => (result.state = Deleted /\ result.err = "nil")

PollerAbsenceMappingWitness ==
  /\ waitFn = "RouteTableAssociationCreation"
  /\ described.api = "error"
  /\ described.code = "InvalidRouteTableID.NotFound"
  /\ result.state = Deleted
  /\ result.err = "nil"

\* C14: a poller returns a nil payload whenever it reports the resource
\* absent (the describe call gave NotFound or nothing and the label is
\* "deleted"; the directory list was empty and the label is "DEREGISTERED")
\* and a non-nil payload with every other label it reports without error.
NilPayloadOnAbsence ==
  (waitFn \in ResourceWaits /\ result # NoResult /\ result.err = "nil")
    => /\ (DescribedMissing \/ (waitFn \in WorkspacesWaits
                                /\ described.api = "empty"))
            => result.payload = "nil"
       /\ (waitFn \notin WorkspacesWaits /\ result.state # Deleted)
            => result.payload # "nil"
       /\ (waitFn \in WorkspacesWaits /\ described.api = "found")
            => result.payload # "nil"

\* the StateChangeConf each wait function builds
ConfOf ==
  [w \in ResourceWaits \cup AssociationWaits |->
     CASE w = "TransitGatewayCreation" -> TransitGatewayCreationConf
       [] w = "TransitGatewayDeletion" -> TransitGatewayDeletionConf
       [] w = "RouteTableCreation" -> TransitGatewayRouteTableCreationConf
       [] w = "RouteTableDeletion" -> TransitGatewayRouteTableDeletionConf
       [] w = "RouteTableAssociationCreation" ->
            TransitGatewayRouteTableAssociationCreationConf
       [] w = "RouteTableAssociationDeletion" ->
            TransitGatewayRouteTableAssociationDeletionConf
       [] w = "PeeringAttachmentAcceptance" ->
            TransitGatewayPeeringAttachmentAcceptanceConf
       [] w = "PeeringAttachmentCreation" ->
            TransitGatewayPeeringAttachmentCreationConf
       [] w = "PeeringAttachmentDeletion" ->
            TransitGatewayPeeringAttachmentDeletionConf
       [] w = "VpcAttachmentAcceptance" ->
            TransitGatewayVpcAttachmentAcceptanceConf
       [] w = "VpcAttachmentCreation" -> TransitGatewayVpcAttachmentCreationConf
       [] w = "VpcAttachmentDeletion" -> TransitGatewayVpcAttachmentDeletionConf
       [] w = "VpcAttachmentUpdate" -> TransitGatewayVpcAttachmentUpdateConf
       [] w = "MulticastDomainCreation" ->
            TransitGatewayMulticastDomainCreationConf
       [] w = "MulticastDomainDeletion" ->
            TransitGatewayMulticastDomainDeletionConf
       [] w = "WorkspacesDirectoryDeregistered" ->
            WorkspacesDirectoryDeregisteredConf
       [] w = "Association" -> AssociationStateConf
       [] w = "Disassociation" -> DisassociationStateConf]
PendingOf == ConfOf[waitFn].Pending
TargetOf == ConfOf[waitFn].Target
\* the polls before poll n all reported a pending label
PendingBefore(n) == \A i \in 1..(n - 1) : history[i] \in PendingOf

\* C15: k polls that report a pending label (k smaller than timeout /
\* interval) followed by a poll that reports a target label make the wait
\* succeed at poll k + 1, on the observation of that poll, and no poll
\* follows.
ConvergenceSuccess ==
  waitFn \in ResourceWaits =>
    \A n \in 1..Len(history) :
      (/\ PendingBefore(n)
       /\ (n - 1) * PollInterval < ConfOf[waitFn].Timeout
       /\ history[n] \in TargetOf)
        => /\ n = Len(history)
           /\ ticks = n
           /\ pc = "Succeeded"
           /\ ret = Success
           /\ result.state = history[n]

ConvergenceSuccessWitness ==
  /\ waitFn = "VpcAttachmentCreation"
  /\ history = <<"pending", "pending", "pendingAcceptance">>
  /\ pc = "Succeeded"

\* poll n is the first whose label is outside pending and target
FirstUnexpected(n) ==
  /\ \A i \in 1..(n - 1) : history[i] \in PendingOf \cup TargetOf
  /\ history[n] \notin PendingOf \cup TargetOf

\* C16: when the n-th observed label is the first one outside pending and
\* target, the wait fails exactly at tick n and the poller is not called
\* again.
UnexpectedState ==
  /\ waitFn \in ResourceWaits =>
       \A n \in 1..Len(history) :
         FirstUnexpected(n)
           => (n = Len(history) /\ ticks = n /\ pc = "Failed"
               /\ ret.class \notin {"Success", "Running"})
  /\ (waitFn \in AssociationWaits /\ result # NoResult /\ result.err = "nil"
      /\ result.state \notin PendingOf \cup TargetOf)
       => (pc = "Failed" /\ ret.class \notin {"Success", "Running"})

\* C16 as the code has it: when the n-th observed label is the first one
\* outside pending and target, and it is not a report of absence ("deleted")
\* to a wait that declares NotFoundChecks, the wait fails exactly at tick n
\* and the poller is not called again.
UnexpectedStateUnlessAbsent ==
  /\ waitFn \in ResourceWaits =>
       \A n \in 1..Len(history) :
         (/\ FirstUnexpected(n)
          /\ ~(history[n] = Deleted /\ ConfOf[waitFn].NotFoundChecks >= 1))
           => (n = Len(history) /\ ticks = n /\ pc = "Failed"
               /\ ret.class \notin {"Success", "Running"})
  /\ (waitFn \in AssociationWaits /\ result # NoResult /\ result.err = "nil"
      /\ result.state \notin PendingOf \cup TargetOf)
       => (pc = "Failed" /\ ret.class \notin {"Success", "Running"})

UnexpectedStateUnlessAbsentWitness ==
  /\ waitFn = "RouteTableAssociationCreation"
  /\ history = <<Associating, Disassociating>>
  /\ pc = "Failed"
  /\ ret.class = "UnexpectedState"

\* the duration each wait is configured with
DurationOf ==
  IF waitFn \in RouteTableAssociationWaits THEN 5 * Minute ELSE 10 * Minute
Elapsed == ticks * PollInterval

\* C17: a wait whose polls all report a pending label goes on polling while
\* less than the configured duration (10 minutes, 5 for the route table
\* association waits) has elapsed and then fails with a Timeout outcome,
\* which no other failure carries; it never reports success, and no wait
\* times out before its duration.
TimeoutOutcome ==
  waitFn \in ResourceWaits \cup AssociationWaits =>
    /\ pc = "TimedOut" => (ret.class = "Timeout" /\ Elapsed >= DurationOf)
    /\ pc = "Failed" => ret.class \in {"UnexpectedState", "RequestError",
                                       "StatusCodeMessage", "ConflictingStates",
                                       "Unhandled"}
    /\ (waitFn \in ResourceWaits /\ Len(history) >= 1
        /\ PendingBefore(Len(history) + 1))
         => /\ ticks = Len(history)
            /\ IF Elapsed >= DurationOf
               THEN pc = "TimedOut" /\ ret.class = "Timeout"
               ELSE pc = "Polling" /\ ret = Running

TimeoutOutcomeWitness ==
  /\ waitFn = "RouteTableAssociationCreation"
  /\ history = <<Associating, Associating>>
  /\ pc = "TimedOut"
  /\ ret.class = "Timeout"

\* the latest describe or list call failed, and not with the not-found code
\* its refresh function tests for
RequestFailed ==
  /\ waitFn \in ResourceWaits \cup AssociationWaits
  /\ described.api = "error"
  /\ waitFn \in ResourceWaits \ WorkspacesWaits
       => described.code # NotFoundCodeOf[waitFn]

\* C18: when the describe or list call of a poller fails with an error other
\* than the kind's not-found code, the poller returns an error (the
\* directory poller with label "ERROR"), the wait fails on that tick, no poll
\* follows, and the wait function returns an error.
RequestError ==
  RequestFailed =>
    /\ result.err = "RequestError"
    /\ result.payload = "nil"
    /\ waitFn \in WorkspacesWaits => result.state = "ERROR"
    /\ pc = "Failed"
    /\ ret.class = "RequestError"
    /\ waitFn \in ResourceWaits =>
         (ticks = Len(history) /\ history[Len(history)] = "error")

RequestErrorWitness ==
  /\ waitFn = "WorkspacesDirectoryDeregistered"
  /\ described.api = "error"
  /\ history = <<"DEREGISTERING", "error">>
  /\ result.state = "ERROR"
  /\ pc = "Failed"

\* C19: a peering attachment wait that observes state "failed" fails on that
\* tick and polls no further: with the error made of the status code and
\* message when the attachment carries a Status, as an unexpected state when
\* it carries none.
FailedLabelWithStatus ==
  (/\ waitFn \in PeeringAttachmentWaits
   /\ described.api = "found"
   /\ described.state = "failed")
    => /\ pc = "Failed"
       /\ ticks = Len(history)
       /\ result.state = "failed"
       /\ result.payload # "nil"
       /\ ret.class = IF described.status THEN "StatusCodeMessage"
                      ELSE "UnexpectedState"

FailedLabelWithStatusWitness ==
  /\ waitFn = "PeeringAttachmentCreation"
  /\ described.state = "failed"
  /\ described.status
  /\ history = <<"initiatingRequest", "error">>
  /\ ret.class = "StatusCodeMessage"

\* C20: when an update function returns success after it issued a mutation,
\* it has called a convergence wait after that mutation, and the wait has
\* finished.
WaitAfterMutation ==
  (/\ update.at = "Returned"
   /\ update.err = Success
   /\ \E i \in 1..Len(trace) : trace[i] \in Mutations)
    => /\ \E i, j \in 1..Len(trace) :
            i < j /\ trace[i] \in Mutations /\ trace[j] = "Wait"
       /\ pc = "Succeeded"

\* ------------------------------------------------- paginated properties
\* pages 1..n were all answered with a page (no error, an output)
AllPages(n) == \A i \in 1..n : lookup.pages[i].kind = "page"
\* page i holds the resource asked for
HoldsWanted(i) ==
  \E k \in 1..Len(lookup.pages[i].entries) :
    lookup.pages[i].entries[k] = "wanted"

\* C21: a paginated describe returns the matching resource whenever a page
\* of the sequence holds it (also a page that follows an empty page with a
\* token), having requested the pages up to the first such page and no
\* further page.
PaginationShortCircuit ==
  (lookup.fn \in PagedDescribes /\ lookup.out # NotCalled)
    => \A m \in 1..Len(lookup.pages) :
         (/\ AllPages(m)
          /\ HoldsWanted(m)
          /\ \A i \in 1..(m - 1) : ~HoldsWanted(i))
           => /\ lookup.out.found = "wanted"
              /\ lookup.out.err = "nil"
              /\ lookup.out.requested = m

\* the first observation of the wait found the awaited state
ConvergedAtFirstPoll ==
  \/ /\ waitFn \in ResourceWaits
     /\ Len(history) >= 1
     /\ history[1] \in TargetOf
  \/ /\ waitFn \in AssociationWaits
     /\ ticks = 1
     /\ result # NoResult
     /\ result.err = "nil"
     /\ result.state \in TargetOf
  \/ /\ waitFn \in GroupWaits
     /\ Len(history) >= 1
     /\ history[1] = "visible"
\* the mutations issued so far
MutationsIssued == {i \in 1..Len(trace) : trace[i] \in Mutations}

\* C22: a wait function called when the remote resource is already in a
\* target state succeeds after exactly one poll, and issues no mutation (the
\* only mutation is the one of the update function that called the wait).
IdempotentWait ==
  ConvergedAtFirstPoll
    => /\ ticks = 1
       /\ pc = "Succeeded"
       /\ ret = Success
       /\ Cardinality(MutationsIssued) = IF update = NoUpdate THEN 0 ELSE 1

IdempotentWaitWitness ==
  /\ waitFn = "RouteTableCreation"
  /\ history = <<"available">>
  /\ ticks = 1
  /\ pc = "Succeeded"
  /\ trace = <<>>

\* the time a wait in progress has used is below its timeout
StillInTime ==
  IF waitFn \in GroupWaits THEN ticks < TimeoutTicks ELSE Elapsed < DurationOf

\* C23: provided every remote read returns, a wait function or group retry
\* helper that was called eventually returns, with one outcome among
\* success, failure and timeout, and whatever labels it observes it is not
\* polling any more once its timeout has elapsed.
Termination ==
  /\ []((waitFn # "none" /\ pc = "Polling") => StillInTime)
  /\ [](waitFn # "none"
          => <>(pc \in {"Succeeded", "Failed", "TimedOut"} /\ ret # Running))

TerminationWitness ==
  /\ waitFn = "VpcAttachmentDeletion"
  /\ history = <<"available", "deleting", "available">>
  /\ pc = "TimedOut"
  /\ ret.class = "Timeout"

\* the directories the listing holds ahead of directory d of page p
DirsBefore(p, d) ==
  {pd \in (1..p) \X (1..MaxDirs + 1) :
     /\ pd[2] <= sweep.pages[pd[1]].dirs
     /\ pd[1] < p \/ (pd[1] = p /\ pd[2] < d)}
\* directory d of page p was deregistered and then observed DEREGISTERED
\* within the first n events
Handled(p, d, n) ==
  \E i, j \in 1..n :
    /\ i < j
    /\ sweep.events[i] = SweepEvent("Deregister", p, d, "")
    /\ sweep.events[j] = SweepEvent("Observed", p, d, "DEREGISTERED")
DeregistersIssued ==
  {k \in 1..Len(sweep.events) : sweep.events[k].op = "Deregister"}

\* C24: the sweeper issues the deregister for a directory only after every
\* earlier directory was deregistered and observed DEREGISTERED; a failed
\* deregister or wait ends the run with that error and no later deregister;
\* it returns nil only after every directory of every page was deregistered
\* and observed DEREGISTERED, or on a skippable listing error after which
\* no deregister was issued.
SequentialSweep ==
  sweep # NoSweep =>
    /\ \A k \in DeregistersIssued :
         \A pd \in DirsBefore(sweep.events[k].page, sweep.events[k].dir) :
           Handled(pd[1], pd[2], k - 1)
    /\ (/\ sweep.at = "Done"
        /\ sweep.events # <<>>
        /\ sweep.events[Len(sweep.events)].op = "Deregister")
         => /\ sweep.err.class \notin {"Success", "Running"}
            /\ "directoryID" \in sweep.err.names
            /\ sweep.events[Len(sweep.events)] =
                 SweepEvent("Deregister", sweep.page, sweep.dir, "")
    /\ (sweep.at = "Done" /\ sweep.err = Success)
         => \/ /\ sweep.pages[sweep.page].kind = "skip"
               /\ \A k \in DeregistersIssued : sweep.events[k].page < sweep.page
            \/ /\ sweep.page = Len(sweep.pages)
               /\ \A p \in 1..Len(sweep.pages) :
                    /\ sweep.pages[p].kind = "page"
                    /\ \A d \in 1..sweep.pages[p].dirs :
                         Handled(p, d, Len(sweep.events))

SequentialSweepWitness ==
  /\ sweep.at = "Done"
  /\ sweep.err = Success
  /\ Len(sweep.pages) = 2
  /\ sweep.pages[1].dirs = 1
  /\ sweep.pages[2].dirs = 2
  /\ Len(sweep.events) = 6

\* C25: on a fetched list with at most one distinct in-progress label among
\* the tracked subnets, the refresh function's outcome (label or error) does
\* not depend on the order in which the tracked ids are iterated.
OrderIndependence ==
  (Reduced /\ Cardinality(TrackedLabels \cap InProgressLabels) <= 1)
    => \A order \in IterationOrders(subnetIDs) :
         ec2TransitGatewayMulticastDomainAssociationRefreshFunc(
           remote, FALSE, subnetIDs, order) = result

\* what a call of the association update has seen of the association: the
\* State its describe call found and the labels its wait polled
ObservedAssociated ==
  update.state = Associated \/ \E i \in 1..Len(history) : history[i] = Associated
ObservedAbsent ==
  update.found = "nil" \/ \E i \in 1..Len(history) : history[i] = Deleted

\* C26: the association update returns success with associate = true only
\* if it saw the association in state "associated" during the call, and
\* with associate = false only if it saw the association absent.
AssociationUpdatePostcondition ==
  (/\ update.fn = "AssociationUpdate"
   /\ update.at = "Returned"
   /\ update.err = Success)
    => IF update.flag THEN ObservedAssociated ELSE ObservedAbsent

MutationCalls == {i \in 1..Len(trace) : trace[i] \in Mutations}
BothIDs == {"transitGatewayRouteTableID", "transitGatewayAttachmentID"}
Failed(err) == err.class \notin {"Success", "Running"}

\* C27: a call of an update function issues at most one mutation, and only
\* after its describe call succeeded and found the presence different from
\* the one requested; a mutation call that returned an error is followed by
\* no wait; nothing is called after the function returned; every failure is
\* returned as an error that names the route table id and the attachment id.
DescribeMutateWait ==
  /\ [](update # NoUpdate =>
          /\ Cardinality(MutationCalls) <= 1
          /\ \A i \in MutationCalls :
               /\ i = 2
               /\ trace[1] = "Describe"
               /\ trace[i] = MutationOf(update.fn, update.flag)
               /\ update.found = (IF update.flag THEN "nil" ELSE "found")
          /\ \A j \in 1..Len(trace) :
               trace[j] = "Wait" => (j = 3 /\ 2 \in MutationCalls)
          /\ (update.found = "error" \/ (pc \in {"Failed", "TimedOut"} /\ Failed(ret)))
               => (update.at = "Wait" \/ Failed(update.err))
          /\ Failed(update.err)
               => (update.at = "Returned" /\ update.err.names = BothIDs))
  /\ [][(update.at = "Mutate" /\ Failed(update'.err))
          => (update'.at = "Returned" /\ waitFn' = "none")]_vars
  /\ [][update.at = "Returned" => UNCHANGED <<trace, waitFn, update>>]_vars

DescribeMutateWaitWitness ==
  /\ update.fn = "AssociationUpdate"
  /\ update.flag
  /\ trace = <<"Describe", "Associate">>
  /\ update.at = "Returned"
  /\ Failed(update.err)

\* C28: an evaluation of the register predicate whose search succeeded
\* reports "visible" (the retry ends with success) exactly when every
\* network interface id of the group is among the returned groups, and one
\* of the deregister predicate exactly when none of them is.
VisibilityPredicates ==
  [][(/\ waitFn \in GroupWaits
      /\ ticks' = ticks + 1
      /\ history'[Len(history')] # "error")
       => ((pc' = "Succeeded")
             <=> IF waitFn = "GroupRegister"
                 THEN \A id \in netIDs : id \in groups
                 ELSE \A id \in netIDs : id \notin groups)]_vars

VisibilityPredicatesWitness ==
  /\ waitFn = "GroupRegister"
  /\ Cardinality(netIDs) = 2
  /\ Cardinality(netIDs \cap groups) = 1
  /\ history = <<"notVisible">>
  /\ pc = "Polling"

\* the entries of pages 1..n, in page order
RECURSIVE EntriesUpTo(_)
EntriesUpTo(n) ==
  IF n = 0 THEN <<>> ELSE EntriesUpTo(n - 1) \o lookup.pages[n].entries
\* the first request that was answered with an error, 0 if none was
FirstError ==
  IF \E i \in 1..Len(lookup.pages) : lookup.pages[i].kind = "error"
  THEN CHOOSE i \in 1..Len(lookup.pages) :
         /\ lookup.pages[i].kind = "error"
         /\ \A j \in 1..(i - 1) : lookup.pages[j].kind # "error"
  ELSE 0

\* C29: when every request is answered with a page, a list function returns
\* the entries of all pages up to the one without a token, in page order,
\* so that every entry of every page is in the list; when a request is
\* answered with an error after pages only, it returns an error and no list.
CompleteCollection ==
  (lookup.fn \in ListCollectors /\ lookup.out # NotCalled)
    => /\ AllPages(Len(lookup.pages))
            => /\ lookup.out.err = "nil"
               /\ lookup.out.list = EntriesUpTo(Len(lookup.pages))
               /\ lookup.out.requested = Len(lookup.pages)
               /\ \A i \in 1..Len(lookup.pages) :
                    \A k \in 1..Len(lookup.pages[i].entries) :
                      \E n \in 1..Len(lookup.out.list) :
                        lookup.out.list[n] = lookup.pages[i].entries[k]
       /\ (FirstError > 0 /\ AllPages(FirstError - 1))
            => /\ lookup.out.err = "RequestError"
               /\ lookup.out.list = <<>>
               /\ lookup.out.requested = FirstError

CompleteCollectionWitness ==
  /\ lookup.fn = "ec2GetTransitGatewayMulticastDomainAssociations"
  /\ Len(lookup.pages) = 2
  /\ AllPages(2)
  /\ lookup.pages[1].entries = <<"wanted">>
  /\ lookup.pages[2].entries = <<"other">>
  /\ lookup.out.list = <<"wanted", "other">>

====
